---------------------------- MODULE Spec2Model ----------------------------
(***************************************************************************)
(* Model of resin-calculator.py (v0.16.0): the Tk user interface state of  *)
(* ResinCalcUI, its event handlers, the scaling arithmetic of do_update,   *)
(* the rounding function pround and the report text built by make_text.    *)
(*                                                                         *)
(* Representation.                                                         *)
(*  - A Python float is modelled by the exact rational it approximates, a  *)
(*    pair <<n, d>> in lowest terms with d > 0.  Binary rounding error of  *)
(*    the float arithmetic is not modelled.                                *)
(*  - A Python str that the code measures (len) or parses (float) is a     *)
(*    sequence of one-character strings; names and literals that are only  *)
(*    concatenated, padded and measured are TLA+ strings.                  *)
(*  - A cell of current_recipe is a record [type, chars]: type "str" for   *)
(*    the strings built at lines 197-199, type "int" for the integer 0 of  *)
(*    line 202; chars is what str() of the cell gives.                     *)
(*  - None is the empty sequence <<>>, any other value v is <<v>>.         *)
(***************************************************************************)
EXTENDS Integers, Sequences, FiniteSets, TLC

(***************************************************************************)
(* Bounds of the model.                                                    *)
(***************************************************************************)
\* Largest number of <<UpdateNeeded>> events held in the Tk event queue: a
\* callback that would add one more waits until do_update has served one.
MaxPending == 2
\* datetime.now() returns one of the seconds 0..MaxSec of one minute.
MaxSec == 0
\* Half width, in steps of the grid, of the windows of pround arguments
\* around 0, 1 and 100.
Spread == 10

(***************************************************************************)
(* Exact rational arithmetic standing for the float arithmetic.            *)
(***************************************************************************)
Abs(n) == IF n < 0 THEN -n ELSE n

RECURSIVE GCD(_, _)
GCD(a, b) == IF b = 0 THEN a ELSE GCD(b, a % b)

Rat(n, d) == LET g == GCD(Abs(n), d) IN <<n \div g, d \div g>>

RatOfInt(n) == <<n, 1>>

RatMulInt(c, r) == Rat(c * r[1], r[2])

\* r / c for an integer c # 0 (c > 0 in every use)
RatDivInt(r, c) == Rat(r[1], r[2] * c)

RatAdd(r, s) == Rat(r[1] * s[2] + s[1] * r[2], r[2] * s[2])

RatLess(r, s) == r[1] * s[2] < s[1] * r[2]

RatGeq(r, s) == ~RatLess(r, s)

RECURSIVE RatSum(_)
RatSum(rs) == IF rs = <<>> THEN RatOfInt(0) ELSE RatAdd(Head(rs), RatSum(Tail(rs)))

RECURSIVE Pow10(_)
Pow10(p) == IF p = 0 THEN 1 ELSE 10 * Pow10(p - 1)

(***************************************************************************)
(* Decimal text.                                                           *)
(***************************************************************************)
Digits == <<"0", "1", "2", "3", "4", "5", "6", "7", "8", "9">>

IsDigit(c) == \E i \in 1..10 : Digits[i] = c

DigitVal(c) == (CHOOSE i \in 1..10 : Digits[i] = c) - 1

\* the decimal digits of a natural number, most significant first
RECURSIVE IntChars(_)
IntChars(n) == IF n < 10 THEN <<Digits[n + 1]>>
               ELSE Append(IntChars(n \div 10), Digits[(n % 10) + 1])

\* the last w decimal digits of n, zero padded
RECURSIVE FracChars(_, _)
FracChars(n, w) == IF w = 0 THEN <<>>
                   ELSE Append(FracChars(n \div 10, w - 1), Digits[(n % 10) + 1])

\* v * 10^precision rounded to an integer, ties to the even integer
RoundScaled(v, precision) ==
    LET N == v[1] * Pow10(precision)
        q == N \div v[2]
        r == N % v[2]
    IN  IF 2 * r > v[2] THEN q + 1
        ELSE IF 2 * r = v[2] THEN q + (q % 2)
        ELSE q

\* '{:.{}f}'.format(v, precision) for v >= 0
FormatFixed(v, precision) ==
    LET m == RoundScaled(v, precision)
    IN  IF precision = 0 THEN IntChars(m)
        ELSE IntChars(m \div Pow10(precision)) \o <<".">>
             \o FracChars(m % Pow10(precision), precision)

\* Precision had the first test been val > 100
PrecisionStrict(v) ==
    LET p1 == IF RatLess(RatOfInt(100), v) THEN 0 ELSE 1
    IN  IF RatLess(v, RatOfInt(1)) THEN 3 ELSE p1

\* the precision pround chooses: two independent tests, the second
\* overriding the first
Precision(v) ==
    LET p1 == IF RatGeq(v, RatOfInt(100)) THEN 0 ELSE 1
    IN  IF RatLess(v, RatOfInt(1)) THEN 3 ELSE p1

pround(v) == FormatFixed(v, Precision(v))

\* the value of a sequence of decimal digits
RECURSIVE DigitsValue(_)
DigitsValue(s) == IF s = <<>> THEN 0
                  ELSE 10 * DigitsValue(SubSeq(s, 1, Len(s) - 1)) + DigitVal(s[Len(s)])

\* float(data) for plain decimal notation: an optional sign, digits with at
\* most one point and at least one digit.  Exponents, "inf", "nan" and
\* surrounding blanks are left out of the texts of the model.
\* ok = FALSE stands for ValueError.
float(data) ==
    LET signed == data # <<>> /\ data[1] \in {"-", "+"}
        body   == IF signed THEN Tail(data) ELSE data
        dots   == {i \in 1..Len(body) : body[i] = "."}
        ip     == IF dots = {} THEN body
                  ELSE SubSeq(body, 1, (CHOOSE i \in dots : TRUE) - 1)
        fp     == IF dots = {} THEN <<>>
                  ELSE SubSeq(body, (CHOOSE i \in dots : TRUE) + 1, Len(body))
        wellformed == /\ Cardinality(dots) <= 1
                      /\ Len(ip) + Len(fp) >= 1
                      /\ \A i \in 1..Len(ip) : IsDigit(ip[i])
                      /\ \A i \in 1..Len(fp) : IsDigit(fp[i])
        mag    == Rat(DigitsValue(ip) * Pow10(Len(fp)) + DigitsValue(fp), Pow10(Len(fp)))
    IN  IF ~wellformed THEN [ok |-> FALSE, val |-> RatOfInt(0)]
        ELSE [ok |-> TRUE,
              val |-> IF signed /\ data[1] = "-" THEN <<-mag[1], mag[2]>> ELSE mag]

(***************************************************************************)
(* Python values.                                                          *)
(***************************************************************************)
None == <<>>

Some(v) == <<v>>

Str(chars) == [type |-> "str", chars |-> chars]

IntZero == [type |-> "int", chars |-> <<"0">>]

(***************************************************************************)
(* The recipe data load_data returns (the content of ~/resins.json): a     *)
(* mapping from recipe name to a list of [component name, parts].  The     *)
(* file is external data and is not validated: "Inert" and "Filler" are    *)
(* recipes whose parts are not all positive.                               *)
(***************************************************************************)
recepies ==
    [k \in {"Epoxy", "Triple", "Inert", "Filler"} |->
        CASE k = "Epoxy"  -> << <<"resin", 2>>, <<"hardener", 1>> >>
          [] k = "Triple" -> << <<"A", 10>>, <<"B", 20>>, <<"C", 70>> >>
          [] k = "Inert"  -> << <<"X", 0>> >>
          [] k = "Filler" -> << <<"Q", 0>>, <<"P", 1>> >>]

\* sorted(list(self.recepies.keys())), the values of the recipe combobox
keys == DOMAIN recepies

\* the texts a key stroke, a paste or a deletion can propose for the
\* quantity entry (the %P of the validate command)
Texts == { <<>>,
           <<"0">>,
           <<"5", "0">>,
           <<"1", "5", "0">>,
           <<"9", "9", ".", "9", "6">>,
           <<"-", "5">>,
           <<"x">> }

\* the items of the quantity type combobox: 0 'Total quantity:',
\* 1 'First component quantity:'
QuantityTypes == {0, 1}

VARIABLES
    resinchoice,     \* value of the recipe combobox, "" while nothing is selected
    qedit,           \* text of the quantity entry
    quantity,        \* self.quantity: index of the selected quantity type
    current_name,    \* self.current_name
    current_recipe,  \* self.current_recipe
    result,          \* rows of the result Treeview
    pending,         \* number of <<UpdateNeeded>> events in the event queue
    upd,             \* locals and outcome of the last run of do_update
    pf,              \* the file do_print / do_saveas has open for writing, or
                     \* the exception make_text raised in them; None otherwise
    val,             \* argument of a call of pround
    rounded          \* what that call returned; None before it returns

vars == <<resinchoice, qedit, quantity, current_name, current_recipe, result,
          pending, upd, pf, val, rounded>>

(***************************************************************************)
(* do_update and what it calls.                                            *)
(***************************************************************************)
get_amount == IF qedit = <<>> THEN RatOfInt(0) ELSE float(qedit).val

RECURSIVE SumParts(_)
SumParts(components) ==
    IF components = <<>> THEN 0 ELSE Head(components)[2] + SumParts(Tail(components))

\* the divisor of line 191 (mode 0) or line 193 (any other mode)
Denominator(components, mode) ==
    IF mode = 0 THEN SumParts(components) ELSE components[1][2]

\* Factor had the mode been ignored and the first component always taken
FactorFirstOnly(qty, components, mode) ==
    IF components[1][2] = 0 THEN None
    ELSE Some(RatDivInt(qty, components[1][2]))

\* Factor had the mode been ignored and the sum of the parts always taken
FactorTotalOnly(qty, components, mode) ==
    IF SumParts(components) = 0 THEN None
    ELSE Some(RatDivInt(qty, SumParts(components)))

\* factor: None stands for the ZeroDivisionError the division raises
Factor(qty, components, mode) ==
    IF Denominator(components, mode) = 0 THEN None
    ELSE Some(RatDivInt(qty, Denominator(components, mode)))

\* c * factor for every component, in recipe order
RawAmounts(components, factor) ==
    [i \in 1..Len(components) |-> RatMulInt(components[i][2], factor)]

\* '{:.2f}'.format(int(100000 / raw) / 100) for raw > 0
PerKilogram(raw) ==
    LET k == (100000 * raw[2]) \div raw[1]
    IN  IntChars(k \div 100) \o <<".">> \o FracChars(k % 100, 2)

\* the tuple built at lines 197-200; None stands for the ZeroDivisionError
\* that 100000 / (c * factor) raises for a component whose amount is 0
ScaledRecipe(components, factor) ==
    LET raw == RawAmounts(components, factor)
    IN  IF \E i \in 1..Len(raw) : raw[i][1] = 0 THEN None
        ELSE Some([i \in 1..Len(components) |->
                     <<components[i][1], Str(pround(raw[i])), Str(PerKilogram(raw[i]))>>])

\* the tuple built at line 202
ZeroRecipe(components) ==
    [i \in 1..Len(components) |-> <<components[i][1], IntZero, IntZero>>]

\* the rows lines 203-204 insert
Rows(recipe) ==
    [i \in 1..Len(recipe) |-> <<recipe[i][1], recipe[i][2].chars, "g", recipe[i][3].chars>>]

\* ResultAfter had the delete loop of lines 194-195 come before the division
ResultAfterEarlyDelete(rows, line, recipe) ==
    IF line \in {191, 193, 199} THEN <<>> ELSE Rows(recipe)

\* the Treeview rows when do_update ends: line is the line that raised
\* (0: none).  The rows are deleted at lines 194-195, after the division.
ResultAfter(rows, line, recipe) ==
    IF line \in {191, 193} THEN rows
    ELSE IF line = 199 THEN <<>>
    ELSE Rows(recipe)

NoUpdate == [outcome |-> "none", line |-> 0, resin |-> "", quantity |-> RatOfInt(0),
             mode |-> 0, factor |-> None, raw |-> <<>>]

do_update ==
    /\ pf = None
    /\ pending > 0
    /\ pending' = pending - 1
    /\ UNCHANGED <<resinchoice, qedit, quantity, pf, val, rounded>>
    /\ IF resinchoice = ""
       THEN /\ upd' = [NoUpdate EXCEPT !.outcome = "return"]
            /\ UNCHANGED <<current_name, current_recipe, result>>
       ELSE LET resin == resinchoice
                qty == get_amount
                components == recepies[resin]
                factor == Factor(qty, components, quantity)
                locals == [outcome |-> "ok", line |-> 0, resin |-> resin,
                           quantity |-> qty, mode |-> quantity, factor |-> factor,
                           raw |-> <<>>]
            IN  /\ current_name' = Some(resin)
                /\ IF factor = None
                   THEN LET line == IF quantity = 0 THEN 191 ELSE 193
                        IN  /\ upd' = [locals EXCEPT !.outcome = "ZeroDivisionError",
                                                     !.line = line]
                            /\ result' = ResultAfter(result, line, <<>>)
                            /\ UNCHANGED current_recipe
                   ELSE IF RatLess(RatOfInt(0), qty)
                   THEN LET scaled == ScaledRecipe(components, factor[1])
                            raw == RawAmounts(components, factor[1])
                        IN  IF scaled = None
                            THEN /\ upd' = [locals EXCEPT !.outcome = "ZeroDivisionError",
                                                          !.line = 199, !.raw = raw]
                                 /\ result' = ResultAfter(result, 199, <<>>)
                                 /\ UNCHANGED current_recipe
                            ELSE /\ upd' = [locals EXCEPT !.raw = raw]
                                 /\ current_recipe' = scaled
                                 /\ result' = ResultAfter(result, 0, scaled[1])
                   ELSE /\ upd' = locals
                        /\ current_recipe' = Some(ZeroRecipe(components))
                        /\ result' = ResultAfter(result, 0, ZeroRecipe(components))

(***************************************************************************)
(* The widget callbacks.  A handler that calls event_generate with         *)
(* when='tail' appends an <<UpdateNeeded>> event to the event queue; the   *)
(* events already queued are served first.  Tk queues the user's events in *)
(* batches, so a key stroke, a selection or a button press that was queued *)
(* before the handler ran is served while the <<UpdateNeeded>> event still *)
(* waits: every callback can run while updates are pending.  Handlers run  *)
(* to completion one after the other: none starts while another is inside  *)
(* its 'with open(...) as pf' block (pf # None).                           *)
(***************************************************************************)
\* validate command of the entry: data is the text the edit would leave.
\* TRUE lets the edit happen, FALSE rejects it.
is_number(data) ==
    /\ pf = None
    /\ pending < MaxPending
    /\ UNCHANGED <<resinchoice, quantity, current_name, current_recipe, result, upd, pf,
                   val, rounded>>
    /\ IF data = <<>>
       THEN /\ pending' = pending + 1
            /\ qedit' = data
       ELSE IF ~float(data).ok \/ RatLess(float(data).val, RatOfInt(0))
       THEN UNCHANGED <<pending, qedit>>
       ELSE /\ pending' = pending + 1
            /\ qedit' = data

\* the user picks v in the recipe combobox
on_resintype(v) ==
    /\ pf = None
    /\ pending < MaxPending
    /\ resinchoice' = v
    /\ current_name' = Some(v)
    /\ pending' = IF v # "" /\ qedit # <<>> THEN pending + 1 ELSE pending
    /\ UNCHANGED <<qedit, quantity, current_recipe, result, upd, pf, val, rounded>>

\* the user picks item v in the quantity type combobox
on_quantitytype(v) ==
    /\ pf = None
    /\ pending < MaxPending
    /\ IF v # quantity
       THEN /\ quantity' = v
            /\ pending' = pending + 1
       ELSE UNCHANGED <<quantity, pending>>
    /\ UNCHANGED <<resinchoice, qedit, current_name, current_recipe, result, upd, pf,
                   val, rounded>>

(***************************************************************************)
(* make_text, do_print and do_saveas.                                      *)
(***************************************************************************)
\* __version__
version == "0.16.0"

\* os.environ['USER'] (or USERNAME), read once when the module is loaded
uname == "rsmith"

\* the readings of datetime.now(): <<second, microsecond>> of 2017-09-23
\* 23:15, one of them with microsecond 0
Clock == ((0..MaxSec) \X {250000}) \cup {<<0, 0>>}

\* what the save dialog returns: "" when it is cancelled
FileNames == {"", "recipe.txt"}

\* str(datetime.now())[:-7].  str() of a datetime whose microsecond is 0 has
\* no fraction, so the slice then cuts ':MM:SS' and a digit of the hour.
DateStr(now) ==
    IF now[2] = 0 THEN "2017-09-23 2"
    ELSE "2017-09-23 23:15:" \o Digits[(now[1] \div 10) + 1] \o Digits[(now[1] % 10) + 1]

RECURSIVE Join(_)
Join(chars) == IF chars = <<>> THEN "" ELSE Head(chars) \o Join(Tail(chars))

RECURSIVE Repeat(_, _)
Repeat(c, n) == IF n <= 0 THEN "" ELSE c \o Repeat(c, n - 1)

\* '{:{}s}'.format(s, w)
LJust(s, w) == s \o Repeat(" ", w - Len(s))

\* '{:>{}}'.format(s, w)
RJust(s, w) == Repeat(" ", w - Len(s)) \o s

Max(S) == CHOOSE m \in S : \A n \in S : n <= m

\* '\n'.join(lines)
RECURSIVE JoinLines(_)
JoinLines(lines) ==
    IF Len(lines) = 1 THEN lines[1]
    ELSE Head(lines) \o "\n" \o JoinLines(Tail(lines))

\* the amount the last line of the report shows: pround(q) of lines 209, 225
TotalField == pround(get_amount)

\* make_text at clock reading now, called with current_recipe not None.
\* len(amnt) at line 211 raises TypeError for a cell that is not a str.
make_text(now) ==
    LET recipe == current_recipe[1]
        idx == 1..Len(recipe)
    IN  IF \E i \in idx : recipe[i][2].type # "str"
        THEN [outcome |-> "TypeError", text |-> ""]
        ELSE
        LET namelen == Max({Len(recipe[i][1]) : i \in idx})
            amlen == Max({Len(recipe[i][2].chars) : i \in idx} \cup {Len(TotalField)})
            apulen == Max({Len(recipe[i][3].chars) : i \in idx})
            lines == << "Resin calculator v" \o version,
                        "------------------------",
                        "",
                        "Recipe for: " \o current_name[1],
                        "Date: " \o DateStr(now),
                        "User: " \o uname,
                        "" >>
                     \o [i \in idx |->
                           LJust(recipe[i][1], namelen) \o ": "
                           \o RJust(Join(recipe[i][2].chars), amlen) \o " " \o "g" \o " ("
                           \o RJust(Join(recipe[i][3].chars), apulen) \o " /kg)"]
                     \o << Repeat("-", namelen + 4 + amlen),
                           LJust("", namelen + 2) \o RJust(Join(TotalField), amlen)
                           \o " " \o "g" >>
        IN  [outcome |-> "ok", text |-> JoinLines(lines)]

\* the file written at lines 234-235 or 249-250 (text), or the exception
\* make_text raised, with the values the text was made from
Written(now) ==
    LET made == make_text(now)
    IN  [outcome |-> made.outcome,
         text    |-> made.text,
         name    |-> current_name,
         recipe  |-> current_recipe,
         total   |-> TotalField,
         now     |-> now]

\* do_print up to the end of pf.write(text)
do_print(now) ==
    /\ pf = None
    /\ UNCHANGED <<resinchoice, qedit, quantity, current_name, current_recipe,
                   result, pending, upd, val, rounded>>
    /\ IF current_recipe = None
       THEN UNCHANGED pf
       ELSE pf' = Some(Written(now))

\* do_saveas up to the end of pf.write(text); fn is what the dialog returned
do_saveas(now, fn) ==
    /\ pf = None
    /\ UNCHANGED <<resinchoice, qedit, quantity, current_name, current_recipe,
                   result, pending, upd, val, rounded>>
    /\ IF current_recipe = None \/ fn = ""
       THEN UNCHANGED pf
       ELSE pf' = Some(Written(now))

\* the rest of do_print or do_saveas: the with block closes the file (and
\* printfile hands it to the printer), or the exception leaves the handler
pf_close ==
    /\ pf # None
    /\ pf' = None
    /\ UNCHANGED <<resinchoice, qedit, quantity, current_name, current_recipe,
                   result, pending, upd, val, rounded>>

Init ==
    /\ resinchoice = ""
    /\ qedit = <<"1", "0", "0">>
    /\ quantity = 0
    /\ current_name = None
    /\ current_recipe = None
    /\ result = <<>>
    /\ pending = 0
    /\ upd = NoUpdate
    /\ pf = None
    /\ val = RatOfInt(0)
    /\ rounded = None

Next ==
    \/ \E data \in Texts : is_number(data)
    \/ \E v \in keys : on_resintype(v)
    \/ \E v \in QuantityTypes : on_quantitytype(v)
    \/ do_update
    \/ \E now \in Clock : do_print(now)
    \/ \E now \in Clock, fn \in FileNames : do_saveas(now, fn)
    \/ pf_close

Spec == Init /\ [][Next]_vars

(***************************************************************************)
(* pround on its own: calls of pround with arguments drawn from windows    *)
(* around the two thresholds 1 and 100 and around 0.                       *)
(***************************************************************************)
PVals ==
    {Rat(n, 1000) : n \in 0..Spread}
    \cup {Rat(1000 + k, 1000) : k \in (0 - Spread)..Spread}
    \cup {Rat(10000 + k, 100) : k \in (0 - Spread)..Spread}
    \cup {RatOfInt(n) : n \in 0..Spread}
    \cup {RatOfInt(100 + n) : n \in 0..Spread}

pround_call ==
    /\ rounded = None
    /\ rounded' = Some(pround(val))
    /\ UNCHANGED <<resinchoice, qedit, quantity, current_name, current_recipe,
                   result, pending, upd, pf, val>>

pround_next ==
    /\ rounded # None
    /\ val' \in PVals
    /\ rounded' = None
    /\ UNCHANGED <<resinchoice, qedit, quantity, current_name, current_recipe,
                   result, pending, upd, pf>>

InitPround ==
    /\ resinchoice = ""
    /\ qedit = <<"1", "0", "0">>
    /\ quantity = 0
    /\ current_name = None
    /\ current_recipe = None
    /\ result = <<>>
    /\ pending = 0
    /\ upd = NoUpdate
    /\ pf = None
    /\ val \in PVals
    /\ rounded = None

NextPround == pround_call \/ pround_next

SpecPround == InitPround /\ [][NextPround]_vars

(***************************************************************************)
(* Properties.                                                             *)
(***************************************************************************)
\* a recipe as the data model wants it: at least one component, all parts > 0
ValidRecipe(components) ==
    /\ Len(components) >= 1
    /\ \A i \in 1..Len(components) : components[i][2] > 0

\* the last run of do_update got past line 186
Ran == upd.outcome \in {"ok", "ZeroDivisionError"}

\* C2: in TOTAL mode (mode 0), for a valid recipe and a quantity > 0, the run
\* of do_update completes, every unrounded amount is parts_i * quantity /
\* sum(parts) and the unrounded amounts add up exactly to the quantity.
C2_TotalModeProportional ==
    (/\ Ran
     /\ upd.mode = 0
     /\ ValidRecipe(recepies[upd.resin])
     /\ RatLess(RatOfInt(0), upd.quantity))
    => LET components == recepies[upd.resin]
       IN  /\ upd.outcome = "ok"
           /\ Len(upd.raw) = Len(components)
           /\ \A i \in 1..Len(components) :
                 upd.raw[i] = Rat(components[i][2] * upd.quantity[1],
                                  upd.quantity[2] * SumParts(components))
           /\ RatSum(upd.raw) = upd.quantity

C2_Witness ==
    /\ upd.outcome = "ok"
    /\ upd.mode = 0
    /\ upd.resin = "Epoxy"
    /\ upd.quantity = RatOfInt(150)
    /\ upd.raw = << RatOfInt(100), RatOfInt(50) >>

\* the precision that the priority order of the rounding policy gives
C4_PriorityPrecision(v) ==
    IF RatGeq(v, RatOfInt(100)) THEN 0
    ELSE IF RatLess(v, RatOfInt(1)) THEN 3
    ELSE 1

\* the number of characters after the decimal point
C4_Decimals(chars) ==
    LET dots == {i \in 1..Len(chars) : chars[i] = "."}
    IN  IF dots = {} THEN 0 ELSE Len(chars) - (CHOOSE i \in dots : TRUE)

\* |a - b| <= 1 / (2 * 10^p)
C4_Nearest(a, b, p) ==
    2 * Pow10(p) * Abs(a[1] * b[2] - b[1] * a[2]) <= a[2] * b[2]

\* C4: for x >= 0 pround renders x with the precision of the priority order
\* (0 decimals if x >= 100, else 3 if x < 1, else 1): the text has exactly
\* that many decimal digits and is a nearest decimal of that precision;
\* 100.0 gives "100", 99.99 gives "100.0", 0.999 gives "0.999", 1.0 gives
\* "1.0".
C4_ProundPrecision ==
    rounded # None =>
       LET out == rounded[1]
           p == C4_PriorityPrecision(val)
       IN  /\ C4_Decimals(out) = p
           /\ float(out).ok
           /\ C4_Nearest(float(out).val, val, p)
           /\ (val = RatOfInt(100) => out = <<"1", "0", "0">>)
           /\ (val = Rat(9999, 100) => out = <<"1", "0", "0", ".", "0">>)
           /\ (val = Rat(999, 1000) => out = <<"0", ".", "9", "9", "9">>)
           /\ (val = RatOfInt(1) => out = <<"1", ".", "0">>)

C4_Witness ==
    /\ val = Rat(9999, 100)
    /\ rounded = Some(<<"1", "0", "0", ".", "0">>)

\* C5: in FIRST_COMPONENT mode (mode 1), for a valid recipe and a quantity
\* > 0, the run of do_update completes, the factor is quantity / parts of
\* the first component, the first unrounded amount is the quantity and every
\* unrounded amount is parts_i * quantity / parts_first; Triple
\* (A 10, B 20, C 70) with quantity 50 gives 50, 100, 350.
C5_FirstComponentMode ==
    (/\ Ran
     /\ upd.mode = 1
     /\ ValidRecipe(recepies[upd.resin])
     /\ RatLess(RatOfInt(0), upd.quantity))
    => LET components == recepies[upd.resin]
           first == components[1][2]
       IN  /\ upd.outcome = "ok"
           /\ upd.factor = Some(Rat(upd.quantity[1], upd.quantity[2] * first))
           /\ Len(upd.raw) = Len(components)
           /\ upd.raw[1] = upd.quantity
           /\ \A i \in 1..Len(components) :
                 upd.raw[i] = Rat(components[i][2] * upd.quantity[1],
                                  upd.quantity[2] * first)
           /\ (upd.resin = "Triple" /\ upd.quantity = RatOfInt(50)
                  => upd.raw = << RatOfInt(50), RatOfInt(100), RatOfInt(350) >>)

C5_Witness ==
    /\ upd.outcome = "ok"
    /\ upd.mode = 1
    /\ upd.resin = "Triple"
    /\ upd.quantity = RatOfInt(50)
    /\ upd.raw = << RatOfInt(50), RatOfInt(100), RatOfInt(350) >>

UpToDate ==
    /\ pending = 0
    /\ upd.outcome = "ok"
    /\ upd.resin = resinchoice
    /\ upd.quantity = get_amount
    /\ upd.mode = quantity
    /\ current_name = Some(resinchoice)

\* the number a text of the report shows
Shown(chars) == float(chars).val

\* C1: the total on the last line of a report is the sum of the rounded
\* amounts of the rows above it.  Stated for the reports the claim is most
\* likely to hold for: a valid recipe, a quantity > 0 and a stored result
\* that is up to date with the inputs.
C1_TotalIsSumOfRounded ==
    (/\ pf # None
     /\ pf[1].outcome = "ok"
     /\ UpToDate
     /\ ValidRecipe(recepies[resinchoice])
     /\ RatLess(RatOfInt(0), get_amount))
    => LET recipe == pf[1].recipe[1]
       IN  Shown(pf[1].total)
             = RatSum([i \in 1..Len(recipe) |-> Shown(recipe[i][2].chars)])

\* C3: for any recipe and either mode, a run of do_update with a quantity
\* <= 0 (an empty entry is read as 0) completes without a division error and
\* stores one entry per component, in recipe order, with amount 0 and
\* per-kilogram 0.
C3_NonPositiveQuantityAllZero ==
    (Ran /\ ~RatLess(RatOfInt(0), upd.quantity))
    => LET components == recepies[upd.resin]
       IN  /\ upd.outcome = "ok"
           /\ current_recipe # None
           /\ Len(current_recipe[1]) = Len(components)
           /\ \A i \in 1..Len(components) :
                 current_recipe[1][i] = <<components[i][1], IntZero, IntZero>>

\* C7 (one step apart): two renderings with the same recipe name, the same
\* stored components, the same actor and the same timestamp give the same
\* text, whatever else changed in between.
C7_RenderDeterministic ==
    [][(/\ current_recipe # None
        /\ current_recipe' = current_recipe
        /\ current_name' = current_name)
       => \A now \in Clock : make_text(now)' = make_text(now)]_vars

\* what do_update computes for a valid recipe
Scaling(components, qty, mode) ==
    IF RatLess(RatOfInt(0), qty)
    THEN ScaledRecipe(components, Factor(qty, components, mode)[1])
    ELSE Some(ZeroRecipe(components))

\* C8: once no <<UpdateNeeded>> event is pending and a recipe is selected,
\* current_recipe and the rows of the display are the scaling of the
\* selected recipe by the quantity in the entry under the selected mode.
\* Stated for valid recipes only, whose scaling always exists.
C8_DisplayRefreshed ==
    (/\ pending = 0
     /\ resinchoice # ""
     /\ ValidRecipe(recepies[resinchoice]))
    => /\ current_recipe = Scaling(recepies[resinchoice], get_amount, quantity)
       /\ current_recipe # None
       /\ result = Rows(current_recipe[1])

ComponentNames(rows) == [i \in 1..Len(rows) |-> rows[i][1]]

\* C9: whenever a result is stored, current_name names the recipe the
\* result was computed from: the components of current_recipe are those of
\* recepies[current_name].  Stated for the states the claim is most likely
\* to hold in: no update pending and a valid recipe selected.
C9_NameMatchesRecipe ==
    (/\ current_recipe # None
     /\ pending = 0
     /\ ValidRecipe(recepies[resinchoice]))
    => /\ current_name = Some(resinchoice)
       /\ ComponentNames(current_recipe[1]) = ComponentNames(recepies[current_name[1]])

\* C10: whenever do_print or do_saveas gets to make_text (current_recipe is
\* not None), make_text returns a report.
C10_StoredResultRenders ==
    pf # None => pf[1].outcome = "ok"

=============================================================================
